---------------------------- MODULE Spec2Model ----------------------------
(***************************************************************************)
(* A model of src/BLEDeviceProfiles.h (namespace BLEProfiles): the codec   *)
(* of BLE manufacturer data (packManufacturerData, parseManufacturerData,  *)
(* parseValue), the sensor group classification and the profile registry. *)
(*                                                                         *)
(* The functions of the header are pure.  The state of the model is the   *)
(* arguments and the result of the calls a peripheral (pack) and a        *)
(* central (parse) make, with the buffer travelling from one to the other.*)
(*                                                                         *)
(* Numbers.  The header computes in C++ float (IEEE-754 binary32) and in  *)
(* int (32 bits, two's complement).  A float is modelled bit-exactly as a *)
(* record [k, s, e, m]: k is "num", "inf" or "nan"; a "num" has the value *)
(* (-1)^s * m * 2^e with either 2^23 <= m < 2^24 (normal, e >= -149) or   *)
(* m < 2^23 and e = -149 (subnormal, zero).  Every operation rounds to    *)
(* nearest, ties to even, as the hardware and the soft-float library do.  *)
(* All intermediate integers stay below 2^31.                              *)
(***************************************************************************)
EXTENDS Integers, Sequences, FiniteSets, TLC

(***************************************************************************)
(* IEEE-754 binary32                                                       *)
(***************************************************************************)

\* Number of significant bits of m > 0 (m < 2^31).
BitLen(m) ==
    IF m = 0 THEN 0 ELSE CHOOSE b \in 1 .. 31 : m \div 2^(b - 1) = 1

Max(a, b) == IF a >= b THEN a ELSE b

F32(s, e, m) == [k |-> "num", s |-> s, e |-> e, m |-> m]
FZero(s) == F32(s, 0 - 149, 0)
FInf(s) == [k |-> "inf", s |-> s, e |-> 0, m |-> 0]
FNaN == [k |-> "nan", s |-> 0, e |-> 0, m |-> 0]

\* The float nearest to (-1)^s * (m + f) * 2^e, where 0 <= f < 1 and
\* sticky says whether f > 0: round to nearest, ties to even, with gradual
\* underflow and overflow to infinity.
RoundPack(s, m, e, sticky) ==
    IF m = 0 THEN FZero(s)
    ELSE LET bits == BitLen(m)
             sh == Max(bits - 24, (0 - 149) - e)
         IN  IF sh <= 0
             THEN IF e + sh > 104 THEN FInf(s)
                  ELSE F32(s, e + sh, m * 2^(0 - sh))
             ELSE IF sh > bits THEN FZero(s)
             ELSE LET q == m \div 2^sh
                      r == m % 2^sh
                      half == 2^(sh - 1)
                      up == \/ r > half
                            \/ r = half /\ (sticky \/ q % 2 = 1)
                      q2 == IF up THEN q + 1 ELSE q
                      m2 == IF q2 = 16777216 THEN 8388608 ELSE q2
                      e2 == IF q2 = 16777216 THEN e + sh + 1 ELSE e + sh
                  IN  IF e2 > 104 THEN FInf(s) ELSE F32(s, e2, m2)

\* int -> float conversion (an int is in -2^31 .. 2^31 - 1).
IntToFloat(n) ==
    IF n >= 0 THEN RoundPack(0, n, 0, FALSE)
    ELSE IF n = (0 - 2147483647) - 1 THEN F32(1, 8, 8388608)
    ELSE RoundPack(1, 0 - n, 0, FALSE)

\* <<floor(num * 2^k / den), the remainder>>, by long division, five bits
\* of the quotient at a time (k is a multiple of 5, den < 2^24).
RECURSIVE LongDiv(_, _, _)
LongDiv(num, den, k) ==
    IF k = 0 THEN <<num \div den, num % den>>
    ELSE LET p == LongDiv(num, den, k - 5)
         IN  <<32 * p[1] + (32 * p[2]) \div den, (32 * p[2]) % den>>

Xor(a, b) == (a + b) % 2

\* a * b in float.
FMul(a, b) ==
    IF a.k = "nan" \/ b.k = "nan" THEN FNaN
    ELSE IF a.k = "inf" \/ b.k = "inf"
    THEN IF (a.k = "num" /\ a.m = 0) \/ (b.k = "num" /\ b.m = 0)
         THEN FNaN ELSE FInf(Xor(a.s, b.s))
    ELSE IF a.m = 0 \/ b.m = 0 THEN FZero(Xor(a.s, b.s))
    ELSE LET ah == a.m \div 4096
             al == a.m % 4096
             bh == b.m \div 4096
             bl == b.m % 4096
             mid == ah * bl + al * bh
             losum == al * bl + (mid % 4096) * 4096
             lo == losum % 16777216
             hi == ah * bh + mid \div 4096 + losum \div 16777216
         IN  IF hi > 0
             THEN RoundPack(Xor(a.s, b.s), hi * 4 + lo \div 4194304,
                            a.e + b.e + 22, lo % 4194304 # 0)
             ELSE RoundPack(Xor(a.s, b.s), lo, a.e + b.e, FALSE)

\* a / b in float, b a finite number other than zero.
FDiv(a, b) ==
    IF a.k = "nan" THEN FNaN
    ELSE IF a.k = "inf" THEN FInf(Xor(a.s, b.s))
    ELSE IF a.m = 0 THEN FZero(Xor(a.s, b.s))
    ELSE LET na == 24 - BitLen(a.m)
             nb == 24 - BitLen(b.m)
             am == a.m * 2^na
             bm == b.m * 2^nb
             qr == LongDiv(am, bm, 25)
         IN  RoundPack(Xor(a.s, b.s), qr[1], (a.e - na) - (b.e - nb) - 25,
                       qr[2] # 0)

\* a == b in float: a NaN equals nothing, the two zeros are equal.
FEq(a, b) ==
    /\ a.k # "nan" /\ b.k # "nan"
    /\ \/ a = b
       \/ a.k = "num" /\ b.k = "num" /\ a.m = 0 /\ b.m = 0


\* The float whose object representation is the bytes b0 (least
\* significant) .. b3: sign, 8 bits of biased exponent, 23 bits of fraction.
FloatOfBytes(b0, b1, b2, b3) ==
    LET s == b3 \div 128
        biased == (b3 % 128) * 2 + b2 \div 128
        frac == (b2 % 128) * 65536 + b1 * 256 + b0
    IN  IF biased = 255 THEN (IF frac = 0 THEN FInf(s) ELSE FNaN)
        ELSE IF biased = 0 THEN F32(s, 0 - 149, frac)
        ELSE F32(s, biased - 150, 8388608 + frac)

\* The object representation of a float, least significant byte first (a
\* NaN as the quiet NaN 0x7FC00000).
BytesOfFloat(f) ==
    LET biased == IF f.k # "num" THEN 255
                  ELSE IF f.m < 8388608 THEN 0 ELSE f.e + 150
        frac == IF f.k = "nan" THEN 4194304
                ELSE IF f.k = "inf" THEN 0
                ELSE IF f.m < 8388608 THEN f.m ELSE f.m - 8388608
    IN  << frac % 256,
           (frac \div 256) % 256,
           (biased % 2) * 128 + frac \div 65536,
           f.s * 128 + biased \div 2 >>

\* The float a decimal literal n/d denotes (0.01f is Dec(1, 100)): n and d
\* are exact floats, so the correctly rounded quotient is the float nearest
\* to the decimal, which is what the compiler stores.
Dec(n, d) == FDiv(IntToFloat(n), IntToFloat(d))

\* float -> integer conversion truncates toward zero.  ok is FALSE when the
\* truncated value is not an int of 32 bits (or f is no number).
FloatToInt(f) ==
    IF f.k # "num" THEN [ok |-> FALSE, v |-> 0, neg |-> f.s = 1]
    ELSE IF f.m = 0 THEN [ok |-> TRUE, v |-> 0, neg |-> FALSE]
    ELSE IF f.e >= 8 THEN [ok |-> FALSE, v |-> 0, neg |-> f.s = 1]
    ELSE LET mag == IF f.e >= 0 THEN f.m * 2^f.e
                    ELSE IF f.e <= 0 - 24 THEN 0
                    ELSE f.m \div 2^(0 - f.e)
         IN  [ok |-> TRUE, v |-> IF f.s = 1 THEN 0 - mag ELSE mag,
              neg |-> f.s = 1]

\* What a build makes of a float -> integer cast whose truncated value the
\* target type [lo, hi] cannot hold, which is undefined behaviour: the low
\* bits of the 32-bit conversion ("wrap") or the nearest bound ("saturate").
CastOutcomes == {"wrap", "saturate"}

\* (T)f for an integer type T of range lo .. hi, as the unsigned value of
\* its object representation (hi - lo + 1 is 2^width).
CastToInt(f, lo, hi, ub) ==
    LET t == FloatToInt(f)
        size == hi - lo + 1
    IN  IF t.ok /\ lo <= t.v /\ t.v <= hi THEN t.v % size
        ELSE IF ub = "wrap" THEN (IF t.ok THEN t.v % size ELSE 0)
        ELSE IF f.k = "nan" THEN 0
        ELSE IF t.neg THEN lo % size ELSE hi % size

(***************************************************************************)
(* The data model: DataType, DataFieldConfig, ManufacturerDataFormat,      *)
(* DeviceProfile.  The unit and description strings take no part in any    *)
(* computation and are left out.                                            *)
(***************************************************************************)

DataType == {"UINT8", "INT8", "UINT16_LE", "UINT16_BE", "INT16_LE",
             "INT16_BE", "UINT32_LE", "UINT32_BE", "FLOAT_LE", "FLOAT_BE"}

\* The number of bytes of a wire type.
Width(dataType) ==
    CASE dataType \in {"UINT8", "INT8"} -> 1
      [] dataType \in {"UINT16_LE", "UINT16_BE", "INT16_LE", "INT16_BE"} -> 2
      [] OTHER -> 4

DataFieldConfig(name, off, type, sc) ==
    [sensorName |-> name, offset |-> off, dataType |-> type, scale |-> sc]

ManufacturerDataFormat(id, fields, len) ==
    [companyId |-> id, dataFields |-> fields, totalLength |-> len]

DeviceProfile(name, device, uuids, mfg) ==
    [profileName |-> name, deviceName |-> device, serviceUuids |-> uuids,
     manufacturerFormat |-> mfg]

\* ManufacturerDataFormat(): company ID 0xFFFF, no field, totalLength 0.
DefaultFormat == ManufacturerDataFormat(65535, << >>, 0)

\* std::map<std::string, float>
EmptyMap == [n \in {} |-> FZero(0)]
MapPut(map, key, v) ==
    [n \in DOMAIN map \cup {key} |-> IF n = key THEN v ELSE map[n]]

(***************************************************************************)
(* The predefined profiles.  A device name is a sequence of characters     *)
(* (it is searched for as a substring); the other strings are only         *)
(* compared for equality.                                                   *)
(***************************************************************************)

ServiceUUIDs_ENVIRONMENTAL == "6E400001-B5A3-F393-E0A9-E50E24DCCA9E"
ServiceUUIDs_AIR_QUALITY == "6E400002-B5A3-F393-E0A9-E50E24DCCA9E"
ServiceUUIDs_MOTION == "6E400003-B5A3-F393-E0A9-E50E24DCCA9E"
ServiceUUIDs_AMBIENT == "6E400004-B5A3-F393-E0A9-E50E24DCCA9E"
ServiceUUIDs_SYSTEM == "6E400005-B5A3-F393-E0A9-E50E24DCCA9E"
ServiceUUIDs_CURRENT == "6E400006-B5A3-F393-E0A9-E50E24DCCA9E"

createEnvironmentalSensorProfile ==
    DeviceProfile("Environmental_Sensors",
        <<"E", "n", "v", "i", "r", "o", "n", "m", "e", "n", "t", "a", "l">>,
        <<ServiceUUIDs_ENVIRONMENTAL>>,
        ManufacturerDataFormat(65535, <<
            DataFieldConfig("temperature", 0, "INT16_BE", Dec(1, 100)),
            DataFieldConfig("humidity", 2, "UINT16_BE", Dec(1, 100)),
            DataFieldConfig("pressure", 4, "UINT32_BE", Dec(1, 100)),
            DataFieldConfig("altitude", 8, "INT16_BE", Dec(1, 10)) >>, 10))

createAirQualitySensorProfile ==
    DeviceProfile("Air_Quality_Sensors",
        <<"A", "i", "r", "Q", "u", "a", "l", "i", "t", "y">>,
        <<ServiceUUIDs_AIR_QUALITY>>,
        ManufacturerDataFormat(65535, <<
            DataFieldConfig("aqi", 0, "UINT16_BE", Dec(1, 1)),
            DataFieldConfig("tvoc", 2, "UINT16_BE", Dec(1, 1)),
            DataFieldConfig("co2", 4, "UINT16_BE", Dec(1, 1)),
            DataFieldConfig("gas_resistance", 6, "UINT32_BE", Dec(1, 1)) >>, 10))

createMotionSensorProfile ==
    DeviceProfile("Motion_Sensors",
        <<"M", "o", "t", "i", "o", "n">>,
        <<ServiceUUIDs_MOTION>>,
        ManufacturerDataFormat(65535, <<
            DataFieldConfig("accel_x", 0, "INT16_BE", Dec(1, 1000)),
            DataFieldConfig("accel_y", 2, "INT16_BE", Dec(1, 1000)),
            DataFieldConfig("accel_z", 4, "INT16_BE", Dec(1, 1000)),
            DataFieldConfig("gyro_x", 6, "INT16_BE", Dec(1, 10)),
            DataFieldConfig("gyro_y", 8, "INT16_BE", Dec(1, 10)),
            DataFieldConfig("gyro_z", 10, "INT16_BE", Dec(1, 10)) >>, 12))

\* createAmbientSensorProfile with the brightness as wide as four bytes.
createAmbientSensorProfile_WideBrightness ==
    DeviceProfile("Ambient_Sensors",
        <<"A", "m", "b", "i", "e", "n", "t">>,
        <<ServiceUUIDs_AMBIENT>>,
        ManufacturerDataFormat(65535, <<
            DataFieldConfig("brightness", 0, "UINT32_BE", Dec(1, 100)),
            DataFieldConfig("red", 2, "UINT8", Dec(1, 1)),
            DataFieldConfig("green", 3, "UINT8", Dec(1, 1)),
            DataFieldConfig("blue", 4, "UINT8", Dec(1, 1)),
            DataFieldConfig("white", 5, "UINT8", Dec(1, 1)) >>, 6))

createAmbientSensorProfile ==
    DeviceProfile("Ambient_Sensors",
        <<"A", "m", "b", "i", "e", "n", "t">>,
        <<ServiceUUIDs_AMBIENT>>,
        ManufacturerDataFormat(65535, <<
            DataFieldConfig("brightness", 0, "UINT16_BE", Dec(1, 100)),
            DataFieldConfig("red", 2, "UINT8", Dec(1, 1)),
            DataFieldConfig("green", 3, "UINT8", Dec(1, 1)),
            DataFieldConfig("blue", 4, "UINT8", Dec(1, 1)),
            DataFieldConfig("white", 5, "UINT8", Dec(1, 1)) >>, 6))

createSystemSensorProfile ==
    DeviceProfile("System_Sensors",
        <<"S", "y", "s", "t", "e", "m">>,
        <<ServiceUUIDs_SYSTEM>>,
        ManufacturerDataFormat(65535, <<
            DataFieldConfig("battery_level", 0, "UINT8", Dec(1, 1)),
            DataFieldConfig("soc", 1, "UINT16_BE", Dec(1, 100)),
            DataFieldConfig("voltage", 3, "UINT16_BE", Dec(1, 1000)),
            DataFieldConfig("current", 5, "INT16_BE", Dec(1, 1000)),
            DataFieldConfig("charging", 7, "UINT8", Dec(1, 1)) >>, 8))

createCurrentSensorProfile ==
    DeviceProfile("Current_Sensors",
        <<"C", "u", "r", "r", "e", "n", "t">>,
        <<ServiceUUIDs_CURRENT>>,
        ManufacturerDataFormat(65535, <<
            DataFieldConfig("rms_current", 0, "FLOAT_BE", Dec(1, 1)),
            DataFieldConfig("power", 4, "FLOAT_BE", Dec(1, 1)),
            DataFieldConfig("energy", 8, "FLOAT_BE", Dec(1, 1)) >>, 12))

createM5StackComprehensiveProfile ==
    DeviceProfile("M5Stack_Comprehensive",
        <<"M", "5", "S", "t", "a", "c", "k", "-", "F", "u", "l", "l">>,
        <<ServiceUUIDs_ENVIRONMENTAL, ServiceUUIDs_AIR_QUALITY, ServiceUUIDs_MOTION, ServiceUUIDs_SYSTEM>>,
        ManufacturerDataFormat(65535, <<
            DataFieldConfig("battery", 0, "UINT8", Dec(1, 1)),
            DataFieldConfig("temperature", 1, "INT16_BE", Dec(1, 100)),
            DataFieldConfig("humidity", 3, "UINT16_BE", Dec(1, 100)),
            DataFieldConfig("pressure", 5, "UINT16_BE", Dec(1, 10)),
            DataFieldConfig("air_quality", 7, "UINT16_BE", Dec(1, 1)),
            DataFieldConfig("acceleration", 9, "UINT16_BE", Dec(1, 1000)),
            DataFieldConfig("status", 11, "UINT8", Dec(1, 1)) >>, 12))

createESP32DevBoardProfile ==
    DeviceProfile("ESP32_DevBoard",
        <<"E", "S", "P", "3", "2", "-", "D", "e", "v">>,
        <<ServiceUUIDs_ENVIRONMENTAL, ServiceUUIDs_AMBIENT>>,
        ManufacturerDataFormat(65535, <<
            DataFieldConfig("temperature", 0, "INT16_BE", Dec(1, 100)),
            DataFieldConfig("humidity", 2, "UINT16_BE", Dec(1, 100)),
            DataFieldConfig("brightness", 4, "UINT16_BE", Dec(1, 10)),
            DataFieldConfig("motion_detected", 6, "UINT8", Dec(1, 1)),
            DataFieldConfig("gpio_status", 7, "UINT8", Dec(1, 1)) >>, 8))

createWeatherStationProfile ==
    DeviceProfile("Weather_Station",
        <<"W", "e", "a", "t", "h", "e", "r", "S", "t", "a", "t", "i", "o", "n">>,
        <<ServiceUUIDs_ENVIRONMENTAL, ServiceUUIDs_AIR_QUALITY>>,
        ManufacturerDataFormat(65535, <<
            DataFieldConfig("temperature", 0, "INT16_BE", Dec(1, 100)),
            DataFieldConfig("humidity", 2, "UINT16_BE", Dec(1, 100)),
            DataFieldConfig("pressure", 4, "UINT32_BE", Dec(1, 100)),
            DataFieldConfig("air_quality", 8, "UINT16_BE", Dec(1, 1)),
            DataFieldConfig("uv_index", 10, "UINT8", Dec(1, 10)),
            DataFieldConfig("wind_speed", 11, "UINT8", Dec(1, 10)) >>, 12))

createM5StackSensorProfile ==
    DeviceProfile("M5Stack_Environmental",
        <<"M", "5", "S", "t", "a", "c", "k">>,
        <<"18dc799a-e8f3-4f75-83b5-d594b1c0e4a0">>,
        ManufacturerDataFormat(65535, <<
            DataFieldConfig("battery", 0, "UINT8", Dec(1, 1)),
            DataFieldConfig("temperature", 1, "INT16_BE", Dec(1, 100)),
            DataFieldConfig("humidity", 3, "UINT16_BE", Dec(1, 100)),
            DataFieldConfig("air_quality", 5, "UINT16_BE", Dec(1, 1)) >>, 7))

createGenericSensorProfile ==
    DeviceProfile("Generic_Sensor",
        <<"G", "e", "n", "e", "r", "i", "c", "D", "e", "v", "i", "c", "e">>,
        <<>>,
        ManufacturerDataFormat(65535, <<
            DataFieldConfig("sensor1", 0, "FLOAT_LE", Dec(1, 1)),
            DataFieldConfig("sensor2", 4, "FLOAT_LE", Dec(1, 1)) >>, 8))

getAllProfiles ==
    << createM5StackSensorProfile, createGenericSensorProfile,
       createEnvironmentalSensorProfile, createAirQualitySensorProfile,
       createMotionSensorProfile, createAmbientSensorProfile,
       createSystemSensorProfile, createCurrentSensorProfile,
       createM5StackComprehensiveProfile, createESP32DevBoardProfile,
       createWeatherStationProfile >>

(***************************************************************************)
(* Parsing.  A buffer is a sequence of bytes; the byte the code calls      *)
(* data[i] is At(data, i).                                                  *)
(***************************************************************************)

At(data, i) == data[i + 1]

\* (int8_t)b and (int16_t)v: the two's complement value of the low bits.
AsInt8(b) == IF b >= 128 THEN b - 256 ELSE b
AsInt16(v) == IF v >= 32768 THEN v - 65536 ELSE v

\* b0 | (b1 << 8) | (b2 << 16) | (b3 << 24), computed in int as the code
\* does (a byte promotes to int): with b3 >= 0x80 the shift reaches the
\* sign bit and the int is negative.
Int32Of(b0, b1, b2, b3) ==
    (IF b3 >= 128 THEN b3 - 256 ELSE b3) * 16777216
        + b2 * 65536 + b1 * 256 + b0

\* rawValue of parseValue: the float read at field.offset, 0.0f when the
\* bytes of the type do not all lie below dataLength.
RawValue(data, dataLength, field) ==
    LET off == field.offset
        t == field.dataType
    IN  CASE t = "UINT8" ->
               IF off < dataLength THEN IntToFloat(At(data, off))
               ELSE FZero(0)
          [] t = "INT8" ->
               IF off < dataLength THEN IntToFloat(AsInt8(At(data, off)))
               ELSE FZero(0)
          [] t = "UINT16_LE" ->
               IF off + 1 < dataLength
               THEN IntToFloat(At(data, off) + At(data, off + 1) * 256)
               ELSE FZero(0)
          [] t = "UINT16_BE" ->
               IF off + 1 < dataLength
               THEN IntToFloat(At(data, off) * 256 + At(data, off + 1))
               ELSE FZero(0)
          [] t = "INT16_LE" ->
               IF off + 1 < dataLength
               THEN IntToFloat(AsInt16(At(data, off) + At(data, off + 1) * 256))
               ELSE FZero(0)
          [] t = "INT16_BE" ->
               IF off + 1 < dataLength
               THEN IntToFloat(AsInt16(At(data, off) * 256 + At(data, off + 1)))
               ELSE FZero(0)
          [] t = "UINT32_LE" ->
               IF off + 3 < dataLength
               THEN IntToFloat(Int32Of(At(data, off), At(data, off + 1),
                                       At(data, off + 2), At(data, off + 3)))
               ELSE FZero(0)
          [] t = "UINT32_BE" ->
               IF off + 3 < dataLength
               THEN IntToFloat(Int32Of(At(data, off + 3), At(data, off + 2),
                                       At(data, off + 1), At(data, off)))
               ELSE FZero(0)
          [] t = "FLOAT_LE" ->
               IF off + 3 < dataLength
               THEN FloatOfBytes(At(data, off), At(data, off + 1),
                                 At(data, off + 2), At(data, off + 3))
               ELSE FZero(0)
          [] t = "FLOAT_BE" ->
               IF off + 3 < dataLength
               THEN FloatOfBytes(At(data, off + 3), At(data, off + 2),
                                 At(data, off + 1), At(data, off))
               ELSE FZero(0)

parseValue(data, dataLength, field) ==
    IF field.offset >= dataLength THEN FZero(0)
    ELSE FMul(RawValue(data, dataLength, field), field.scale)

\* ParseFields leaving out a field that does not lie within the payload.
RECURSIVE ParseFields_SkipOutOfRange(_, _, _, _, _)
ParseFields_SkipOutOfRange(fields, i, sensorData, sensorDataLength, results) ==
    IF i > Len(fields) THEN results
    ELSE IF fields[i].offset + Width(fields[i].dataType) > sensorDataLength
    THEN ParseFields_SkipOutOfRange(fields, i + 1, sensorData,
                                    sensorDataLength, results)
    ELSE ParseFields_SkipOutOfRange(fields, i + 1, sensorData,
             sensorDataLength,
             MapPut(results, fields[i].sensorName,
                    parseValue(sensorData, sensorDataLength, fields[i])))

\* The loop over format.dataFields: results[field.sensorName] = value.
RECURSIVE ParseFields(_, _, _, _, _)
ParseFields(fields, i, sensorData, sensorDataLength, results) ==
    IF i > Len(fields) THEN results
    ELSE ParseFields(fields, i + 1, sensorData, sensorDataLength,
             MapPut(results, fields[i].sensorName,
                    parseValue(sensorData, sensorDataLength, fields[i])))

\* data[0] | (data[1] << 8), as uint16_t
ReceivedCompanyId(data) == At(data, 0) + At(data, 1) * 256

\* parseManufacturerData without the comparison of the company ID.
parseManufacturerData_NoIdCheck(data, dataLength, format) ==
    IF dataLength < 2 THEN EmptyMap
    ELSE IF dataLength < 2 + format.totalLength THEN EmptyMap
    ELSE ParseFields(format.dataFields, 1, SubSeq(data, 3, dataLength),
                     dataLength - 2, EmptyMap)

\* parseManufacturerData without the comparison with totalLength.
parseManufacturerData_NoLengthCheck(data, dataLength, format) ==
    IF dataLength < 2 THEN EmptyMap
    ELSE IF ReceivedCompanyId(data) # format.companyId THEN EmptyMap
    ELSE ParseFields(format.dataFields, 1, SubSeq(data, 3, dataLength),
                     dataLength - 2, EmptyMap)

parseManufacturerData(data, dataLength, format) ==
    IF dataLength < 2 THEN EmptyMap
    ELSE IF ReceivedCompanyId(data) # format.companyId THEN EmptyMap
    ELSE IF dataLength < 2 + format.totalLength THEN EmptyMap
    ELSE ParseFields(format.dataFields, 1, SubSeq(data, 3, dataLength),
                     dataLength - 2, EmptyMap)

(***************************************************************************)
(* Packing                                                                  *)
(***************************************************************************)

\* sensorData[i] = b, where sensorData is &data[2].
Store(data, i, b) == [data EXCEPT ![i + 3] = b]

\* One case of the switch of packManufacturerData; the switch has no case
\* for UINT32_LE and UINT32_BE, which fall to default: break.
PackField(data, field, scaledValue, ub) ==
    LET off == field.offset
        t == field.dataType
        u8 == CastToInt(scaledValue, 0, 255, ub)
        i8 == CastToInt(scaledValue, 0 - 128, 127, ub)
        u16 == CastToInt(scaledValue, 0, 65535, ub)
        i16 == CastToInt(scaledValue, 0 - 32768, 32767, ub)
        fb == BytesOfFloat(scaledValue)
    IN  CASE t = "UINT8" -> Store(data, off, u8)
          [] t = "INT8" -> Store(data, off, i8)
          [] t = "UINT16_LE" ->
               Store(Store(data, off, u16 % 256), off + 1, u16 \div 256)
          [] t = "UINT16_BE" ->
               Store(Store(data, off, u16 \div 256), off + 1, u16 % 256)
          [] t = "INT16_LE" ->
               Store(Store(data, off, i16 % 256), off + 1, i16 \div 256)
          [] t = "INT16_BE" ->
               Store(Store(data, off, i16 \div 256), off + 1, i16 % 256)
          [] t = "FLOAT_LE" ->
               Store(Store(Store(Store(data, off, fb[1]), off + 1, fb[2]),
                           off + 2, fb[3]), off + 3, fb[4])
          [] t = "FLOAT_BE" ->
               Store(Store(Store(Store(data, off, fb[4]), off + 1, fb[3]),
                           off + 2, fb[2]), off + 3, fb[1])
          [] OTHER -> data

\* The loop over format.dataFields: a field whose name is not a key of
\* values is skipped.
RECURSIVE PackFields(_, _, _, _, _)
PackFields(fields, i, values, data, ub) ==
    IF i > Len(fields) THEN data
    ELSE IF fields[i].sensorName \notin DOMAIN values
    THEN PackFields(fields, i + 1, values, data, ub)
    ELSE PackFields(fields, i + 1, values,
             PackField(data, fields[i],
                       FDiv(values[fields[i].sensorName], fields[i].scale),
                       ub),
             ub)

\* InitialBuffer resized one byte too long.
InitialBuffer_OneMore(format) ==
    << format.companyId % 256, (format.companyId \div 256) % 256 >>
        \o [i \in 1 .. format.totalLength + 1 |-> 0]

\* InitialBuffer resized with the filler 0xFF.
InitialBuffer_Filled(format) ==
    << format.companyId % 256, (format.companyId \div 256) % 256 >>
        \o [i \in 1 .. format.totalLength |-> 255]

\* InitialBuffer with the company ID big-endian.
InitialBuffer_BigEndianId(format) ==
    << (format.companyId \div 256) % 256, format.companyId % 256 >>
        \o [i \in 1 .. format.totalLength |-> 0]

\* The company ID, little-endian, then resize(2 + totalLength, 0).
InitialBuffer(format) ==
    << format.companyId % 256, (format.companyId \div 256) % 256 >>
        \o [i \in 1 .. format.totalLength |-> 0]

packManufacturerData(values, format, ub) ==
    PackFields(format.dataFields, 1, values, InitialBuffer(format), ub)

(***************************************************************************)
(* Sensor groups.  A sensor name is a sequence of characters.              *)
(***************************************************************************)

SensorGroup ==
    {"ENVIRONMENTAL", "AIR_QUALITY", "MOTION", "AMBIENT", "SYSTEM", "CURRENT"}

\* std::string::npos
npos == 0 - 1

\* str.find(sub): the first position (from 0) at which sub occurs in str,
\* npos when it occurs nowhere.
Find(str, sub) ==
    LET at == {i \in 0 .. Len(str) - Len(sub) :
                  SubSeq(str, i + 1, i + Len(sub)) = sub}
    IN  IF at = {} THEN npos
        ELSE CHOOSE i \in at : \A j \in at : i <= j

\* getSensorGroupFromName with the motion sensors looked for before the
\* air quality sensors.
getSensorGroupFromName_MotionFirst(sensorName) ==
    IF \/ Find(sensorName, <<"b", "m", "p">>) # npos
       \/ Find(sensorName, <<"h", "d", "c">>) # npos
       \/ Find(sensorName, <<"s", "h", "t">>) # npos
       \/ Find(sensorName, <<"d", "h", "t">>) # npos
       \/ Find(sensorName, <<"a", "h", "t">>) # npos
       \/ Find(sensorName, <<"t", "e", "m", "p", "e", "r", "a", "t", "u", "r", "e">>) # npos
       \/ Find(sensorName, <<"h", "u", "m", "i", "d", "i", "t", "y">>) # npos
       \/ Find(sensorName, <<"p", "r", "e", "s", "s", "u", "r", "e">>) # npos
    THEN "ENVIRONMENTAL"
    ELSE
    IF \/ Find(sensorName, <<"m", "p", "u">>) # npos
       \/ Find(sensorName, <<"b", "m", "i">>) # npos
       \/ Find(sensorName, <<"b", "m", "m">>) # npos
       \/ Find(sensorName, <<"l", "s", "m">>) # npos
       \/ Find(sensorName, <<"a", "c", "c", "e", "l">>) # npos
       \/ Find(sensorName, <<"g", "y", "r", "o">>) # npos
       \/ Find(sensorName, <<"m", "a", "g", "n", "e", "t">>) # npos
    THEN "MOTION"
    ELSE
    IF \/ Find(sensorName, <<"e", "n", "s">>) # npos
       \/ Find(sensorName, <<"s", "g", "p">>) # npos
       \/ Find(sensorName, <<"c", "c", "s">>) # npos
       \/ Find(sensorName, <<"a", "q", "i">>) # npos
       \/ Find(sensorName, <<"c", "o", "2">>) # npos
       \/ Find(sensorName, <<"t", "v", "o", "c">>) # npos
    THEN "AIR_QUALITY"
    ELSE
    IF \/ Find(sensorName, <<"v", "e", "m", "l">>) # npos
       \/ Find(sensorName, <<"t", "s", "l">>) # npos
       \/ Find(sensorName, <<"b", "h", "1">>) # npos
       \/ Find(sensorName, <<"l", "i", "g", "h", "t">>) # npos
       \/ Find(sensorName, <<"c", "o", "l", "o", "r">>) # npos
       \/ Find(sensorName, <<"b", "r", "i", "g", "h", "t", "n", "e", "s", "s">>) # npos
    THEN "AMBIENT"
    ELSE
    IF \/ Find(sensorName, <<"b", "q">>) # npos
       \/ Find(sensorName, <<"i", "p", "5", "3", "0", "6">>) # npos
       \/ Find(sensorName, <<"b", "a", "t", "t", "e", "r", "y">>) # npos
       \/ Find(sensorName, <<"p", "o", "w", "e", "r">>) # npos
       \/ Find(sensorName, <<"c", "h", "a", "r", "g", "i", "n", "g">>) # npos
    THEN "SYSTEM"
    ELSE
    IF \/ Find(sensorName, <<"s", "c", "t">>) # npos
       \/ Find(sensorName, <<"c", "u", "r", "r", "e", "n", "t">>) # npos
    THEN "CURRENT"
    ELSE
    "ENVIRONMENTAL"

getSensorGroupFromName(sensorName) ==
    IF \/ Find(sensorName, <<"b", "m", "p">>) # npos
       \/ Find(sensorName, <<"h", "d", "c">>) # npos
       \/ Find(sensorName, <<"s", "h", "t">>) # npos
       \/ Find(sensorName, <<"d", "h", "t">>) # npos
       \/ Find(sensorName, <<"a", "h", "t">>) # npos
       \/ Find(sensorName, <<"t", "e", "m", "p", "e", "r", "a", "t", "u", "r", "e">>) # npos
       \/ Find(sensorName, <<"h", "u", "m", "i", "d", "i", "t", "y">>) # npos
       \/ Find(sensorName, <<"p", "r", "e", "s", "s", "u", "r", "e">>) # npos
    THEN "ENVIRONMENTAL"
    ELSE
    IF \/ Find(sensorName, <<"e", "n", "s">>) # npos
       \/ Find(sensorName, <<"s", "g", "p">>) # npos
       \/ Find(sensorName, <<"c", "c", "s">>) # npos
       \/ Find(sensorName, <<"a", "q", "i">>) # npos
       \/ Find(sensorName, <<"c", "o", "2">>) # npos
       \/ Find(sensorName, <<"t", "v", "o", "c">>) # npos
    THEN "AIR_QUALITY"
    ELSE
    IF \/ Find(sensorName, <<"m", "p", "u">>) # npos
       \/ Find(sensorName, <<"b", "m", "i">>) # npos
       \/ Find(sensorName, <<"b", "m", "m">>) # npos
       \/ Find(sensorName, <<"l", "s", "m">>) # npos
       \/ Find(sensorName, <<"a", "c", "c", "e", "l">>) # npos
       \/ Find(sensorName, <<"g", "y", "r", "o">>) # npos
       \/ Find(sensorName, <<"m", "a", "g", "n", "e", "t">>) # npos
    THEN "MOTION"
    ELSE
    IF \/ Find(sensorName, <<"v", "e", "m", "l">>) # npos
       \/ Find(sensorName, <<"t", "s", "l">>) # npos
       \/ Find(sensorName, <<"b", "h", "1">>) # npos
       \/ Find(sensorName, <<"l", "i", "g", "h", "t">>) # npos
       \/ Find(sensorName, <<"c", "o", "l", "o", "r">>) # npos
       \/ Find(sensorName, <<"b", "r", "i", "g", "h", "t", "n", "e", "s", "s">>) # npos
    THEN "AMBIENT"
    ELSE
    IF \/ Find(sensorName, <<"b", "q">>) # npos
       \/ Find(sensorName, <<"i", "p", "5", "3", "0", "6">>) # npos
       \/ Find(sensorName, <<"b", "a", "t", "t", "e", "r", "y">>) # npos
       \/ Find(sensorName, <<"p", "o", "w", "e", "r">>) # npos
       \/ Find(sensorName, <<"c", "h", "a", "r", "g", "i", "n", "g">>) # npos
    THEN "SYSTEM"
    ELSE
    IF \/ Find(sensorName, <<"s", "c", "t">>) # npos
       \/ Find(sensorName, <<"c", "u", "r", "r", "e", "n", "t">>) # npos
    THEN "CURRENT"
    ELSE
    "ENVIRONMENTAL"

(***************************************************************************)
(* The sensor group utilities                                               *)
(***************************************************************************)

\* The value of an enumerator of SensorGroup: the order in which a
\* std::map<SensorGroup, ...> is iterated.
SensorGroupValue ==
    [ENVIRONMENTAL |-> 0, AIR_QUALITY |-> 1, MOTION |-> 2, AMBIENT |-> 3,
     SYSTEM |-> 4, CURRENT |-> 5]

getServiceUUIDForGroup(g) ==
    CASE g = "ENVIRONMENTAL" -> ServiceUUIDs_ENVIRONMENTAL
      [] g = "AIR_QUALITY" -> ServiceUUIDs_AIR_QUALITY
      [] g = "MOTION" -> ServiceUUIDs_MOTION
      [] g = "AMBIENT" -> ServiceUUIDs_AMBIENT
      [] g = "SYSTEM" -> ServiceUUIDs_SYSTEM
      [] g = "CURRENT" -> ServiceUUIDs_CURRENT
      [] OTHER -> ServiceUUIDs_ENVIRONMENTAL

packSensorGroupData(values, g, ub) ==
    LET profile ==
            CASE g = "ENVIRONMENTAL" -> createEnvironmentalSensorProfile
              [] g = "AIR_QUALITY" -> createAirQualitySensorProfile
              [] g = "MOTION" -> createMotionSensorProfile
              [] g = "AMBIENT" -> createAmbientSensorProfile
              [] g = "SYSTEM" -> createSystemSensorProfile
              [] g = "CURRENT" -> createCurrentSensorProfile
              [] OTHER -> createEnvironmentalSensorProfile
    IN  packManufacturerData(values, profile.manufacturerFormat, ub)

\* The profile parseSensorGroupData selects in its switch.
parseSensorGroupProfile(g) ==
    CASE g = "ENVIRONMENTAL" -> createEnvironmentalSensorProfile
      [] g = "AIR_QUALITY" -> createAirQualitySensorProfile
      [] g = "MOTION" -> createMotionSensorProfile
      [] g = "AMBIENT" -> createAmbientSensorProfile
      [] g = "SYSTEM" -> createSystemSensorProfile
      [] g = "CURRENT" -> createCurrentSensorProfile
      [] OTHER -> createEnvironmentalSensorProfile

parseSensorGroupData(data, dataLength, g) ==
    parseManufacturerData(data, dataLength,
                          parseSensorGroupProfile(g).manufacturerFormat)

\* struct MultiGroupSensorData
MultiGroupSensorData(g, data, uuid) ==
    [group |-> g, data |-> data, serviceUuid |-> uuid]

\* The body of the loop of packMultiGroupSensorData: the packet of a group.
PacketOf(groupedValues, g, ub) ==
    MultiGroupSensorData(g, packSensorGroupData(groupedValues[g], g, ub),
                         getServiceUUIDForGroup(g))

\* The groups of the entries in the order the loop takes them: a std::map
\* holds its entries in ascending order of the key.
EntriesInOrder(groups) ==
    [i \in 1 .. Cardinality(groups) |->
        CHOOSE g \in groups :
            Cardinality({h \in groups :
                SensorGroupValue[h] < SensorGroupValue[g]}) = i - 1]

\* packMultiGroupSensorData with if (values.empty()) continue left out.
packMultiGroupSensorData_KeepEmpty(groupedValues, ub) ==
    LET order == EntriesInOrder(DOMAIN groupedValues)
    IN  [i \in 1 .. Len(order) |-> PacketOf(groupedValues, order[i], ub)]

\* The loop over the entries of groupedValues: an entry whose values are
\* empty is passed over, every other entry appends its packet.
packMultiGroupSensorData(groupedValues, ub) ==
    LET order == EntriesInOrder({g \in DOMAIN groupedValues :
                                     DOMAIN groupedValues[g] # {}})
    IN  [i \in 1 .. Len(order) |-> PacketOf(groupedValues, order[i], ub)]

\* The characters of the names in the order of their codes (a char compares
\* as an unsigned char).
Chars ==
    <<"-", "0", "1", "2", "3", "4", "5", "6", "7", "8", "9",
      "A", "B", "C", "D", "E", "F", "G", "H", "I", "J", "K", "L", "M",
      "N", "O", "P", "Q", "R", "S", "T", "U", "V", "W", "X", "Y", "Z",
      "_",
      "a", "b", "c", "d", "e", "f", "g", "h", "i", "j", "k", "l", "m",
      "n", "o", "p", "q", "r", "s", "t", "u", "v", "w", "x", "y", "z">>

CharOrder(c) == CHOOSE i \in 1 .. Len(Chars) : Chars[i] = c

\* a < b for std::string: the order of the keys of a std::map<std::string, ...>.
StringLess(a, b) ==
    \E i \in 1 .. Len(b) :
        /\ i - 1 <= Len(a)
        /\ SubSeq(a, 1, i - 1) = SubSeq(b, 1, i - 1)
        /\ \/ Len(a) = i - 1
           \/ CharOrder(a[i]) < CharOrder(b[i])

\* The inner loop of organizeSensorValuesByGroup:
\* groupedData[g][key] = value for every pair of vals.  An entry of g is made
\* by the first assignment only.
MergeValues(groupedData, g, vals) ==
    IF DOMAIN vals = {} THEN groupedData
    ELSE LET old == IF g \in DOMAIN groupedData THEN groupedData[g]
                    ELSE EmptyMap
         IN  [x \in DOMAIN groupedData \cup {g} |->
                 IF x = g
                 THEN [k \in DOMAIN old \cup DOMAIN vals |->
                          IF k \in DOMAIN vals THEN vals[k] ELSE old[k]]
                 ELSE groupedData[x]]

\* The outer loop of organizeSensorValuesByGroup taking the sensors in
\* descending order of their names.
RECURSIVE MergeSensors_Descending(_, _, _)
MergeSensors_Descending(sensors, remaining, groupedData) ==
    IF remaining = {} THEN groupedData
    ELSE LET name == CHOOSE n \in remaining :
                         \A o \in remaining : o = n \/ StringLess(o, n)
         IN  MergeSensors_Descending(sensors, remaining \ {name},
                 MergeValues(groupedData, getSensorGroupFromName(name),
                             sensors[name]))

\* The outer loop of organizeSensorValuesByGroup over the sensors that
\* remain, in ascending order of their names.
RECURSIVE MergeSensors(_, _, _)
MergeSensors(sensors, remaining, groupedData) ==
    IF remaining = {} THEN groupedData
    ELSE LET name == CHOOSE n \in remaining :
                         \A o \in remaining : o = n \/ StringLess(n, o)
         IN  MergeSensors(sensors, remaining \ {name},
                 MergeValues(groupedData, getSensorGroupFromName(name),
                             sensors[name]))

\* std::map<SensorGroup, std::map<std::string, float>> groupedData
EmptyGroups == [x \in {} |-> EmptyMap]

organizeSensorValuesByGroup(sensors) ==
    MergeSensors(sensors, DOMAIN sensors, EmptyGroups)

(***************************************************************************)
(* The registry lookups.  The DeviceProfile* a lookup returns is modelled  *)
(* as the index of the profile in the list, nullptr as 0.                   *)
(***************************************************************************)

nullptr == 0

getProfilesByGroup(g) ==
    CASE g = "ENVIRONMENTAL" ->
           <<createEnvironmentalSensorProfile, createWeatherStationProfile>>
      [] g = "AIR_QUALITY" ->
           <<createAirQualitySensorProfile, createWeatherStationProfile>>
      [] g = "MOTION" -> <<createMotionSensorProfile>>
      [] g = "AMBIENT" ->
           <<createAmbientSensorProfile, createESP32DevBoardProfile>>
      [] g = "SYSTEM" ->
           <<createSystemSensorProfile, createM5StackComprehensiveProfile>>
      [] g = "CURRENT" -> <<createCurrentSensorProfile>>
      [] OTHER -> << >>

\* findProfileByName from the profile of index i on.
RECURSIVE findProfileByNameFrom(_, _, _)
findProfileByNameFrom(name, profiles, i) ==
    IF i > Len(profiles) THEN nullptr
    ELSE IF profiles[i].profileName = name THEN i
    ELSE findProfileByNameFrom(name, profiles, i + 1)

findProfileByName(name, profiles) ==
    findProfileByNameFrom(name, profiles, 1)

\* findProfileByServiceUuid from the profile of index i on.
RECURSIVE findProfileByServiceUuidFrom(_, _, _)
findProfileByServiceUuidFrom(uuid, profiles, i) ==
    IF i > Len(profiles) THEN nullptr
    ELSE IF \E j \in 1 .. Len(profiles[i].serviceUuids) :
                profiles[i].serviceUuids[j] = uuid
    THEN i
    ELSE findProfileByServiceUuidFrom(uuid, profiles, i + 1)

findProfileByServiceUuid(uuid, profiles) ==
    findProfileByServiceUuidFrom(uuid, profiles, 1)

\* findProfileByDeviceName from the profile of index i on.
RECURSIVE findProfileByDeviceNameFrom(_, _, _)
findProfileByDeviceNameFrom(deviceName, profiles, i) ==
    IF i > Len(profiles) THEN nullptr
    ELSE IF Find(deviceName, profiles[i].deviceName) # npos THEN i
    ELSE findProfileByDeviceNameFrom(deviceName, profiles, i + 1)

\* findProfileByDeviceName looking for the observed name in the name of the
\* profile.
RECURSIVE findProfileByDeviceName_Within(_, _)
findProfileByDeviceName_Within(deviceName, profiles) ==
    IF profiles = << >> THEN nullptr
    ELSE IF Find(profiles[1].deviceName, deviceName) # npos THEN 1
    ELSE LET rest == findProfileByDeviceName_Within(deviceName, Tail(profiles))
         IN  IF rest = nullptr THEN nullptr ELSE rest + 1

findProfileByDeviceName(deviceName, profiles) ==
    findProfileByDeviceNameFrom(deviceName, profiles, 1)

(***************************************************************************)
(* The arguments the calls are made with                                    *)
(***************************************************************************)

\* A format of the caller's: company ID 0x1001, a battery byte and a
\* temperature in hundredths, big-endian.
ScenarioFormat ==
    ManufacturerDataFormat(4097, <<
        DataFieldConfig("battery", 0, "UINT8", Dec(1, 1)),
        DataFieldConfig("temperature", 1, "INT16_BE", Dec(1, 100)) >>, 3)

\* A format of the caller's with the wire types no predefined profile uses
\* and an unused byte (offset 5) between two fields.
LittleEndianFormat ==
    ManufacturerDataFormat(4660, <<
        DataFieldConfig("trim", 0, "INT8", Dec(1, 1)),
        DataFieldConfig("level", 1, "UINT16_LE", Dec(1, 10)),
        DataFieldConfig("tilt", 3, "INT16_LE", Dec(1, 100)),
        DataFieldConfig("count", 6, "UINT32_LE", Dec(1, 1)) >>, 10)

\* A format of the caller's whose totalLength is set too small for its
\* fields: only the first field lies within totalLength bytes.
ShortLengthFormat ==
    ManufacturerDataFormat(4098, <<
        DataFieldConfig("first", 0, "UINT8", Dec(1, 1)),
        DataFieldConfig("second", 1, "UINT16_BE", Dec(1, 100)),
        DataFieldConfig("third", 3, "UINT8", Dec(1, 1)) >>, 2)

PredefinedFormats ==
    {getAllProfiles[i].manufacturerFormat : i \in 1 .. Len(getAllProfiles)}

Formats ==
    PredefinedFormats
        \cup {DefaultFormat, ScenarioFormat, LittleEndianFormat,
              ShortLengthFormat}

FieldsOf(format) ==
    {format.dataFields[i] : i \in 1 .. Len(format.dataFields)}

FieldNames(format) == {fd.sensorName : fd \in FieldsOf(format)}

\* Every field lies within totalLength bytes: packManufacturerData writes
\* only inside the vector it returns.
FieldsFit(format) ==
    \A fd \in FieldsOf(format) :
        fd.offset + Width(fd.dataType) <= format.totalLength

PackFormats == {f \in Formats : FieldsFit(f)}

\* The raw numbers the values of a call are made of, by wire type: one in
\* the middle of the type's range, the two ends of the range, and one
\* outside the range.
ValuePatterns == {"typical", "high", "low", "beyond", "literal"}

SampleRaw(dataType, pattern) ==
    CASE dataType = "UINT8" ->
           (CASE pattern = "typical" -> 87 [] pattern = "high" -> 255
              [] pattern = "low" -> 0 [] OTHER -> 300)
      [] dataType = "INT8" ->
           (CASE pattern = "typical" -> 0 - 5 [] pattern = "high" -> 127
              [] pattern = "low" -> 0 - 128 [] OTHER -> 0 - 200)
      [] dataType \in {"UINT16_LE", "UINT16_BE"} ->
           (CASE pattern = "typical" -> 2345 [] pattern = "high" -> 65535
              [] pattern = "low" -> 1 [] OTHER -> 70000)
      [] dataType \in {"INT16_LE", "INT16_BE"} ->
           (CASE pattern = "typical" -> 0 - 1234 [] pattern = "high" -> 32767
              [] pattern = "low" -> 0 - 32768 [] OTHER -> 0 - 40000)
      [] dataType \in {"UINT32_LE", "UINT32_BE"} ->
           (CASE pattern = "typical" -> 101325 [] pattern = "high" -> 16777216
              [] pattern = "low" -> 1 [] OTHER -> 0 - 1)
      [] OTHER ->
           (CASE pattern = "typical" -> 3 [] pattern = "high" -> 16777215
              [] pattern = "low" -> 0 - 7 [] OTHER -> 70000)

\* The value a caller supplies for a field: the physical value of a raw
\* number (raw * scale), or the literal 23.45f.
SampleValue(field, pattern) ==
    IF pattern = "literal" THEN Dec(2345, 100)
    ELSE FMul(IntToFloat(SampleRaw(field.dataType, pattern)), field.scale)

FieldNamed(format, name) ==
    CHOOSE fd \in FieldsOf(format) : fd.sensorName = name

\* The values of the scenario: battery 87, temperature 23.45f.
ScenarioValues ==
    MapPut(MapPut(EmptyMap, "battery", IntToFloat(87)),
           "temperature", Dec(2345, 100))

\* The value mappings of a call of packManufacturerData: any subset of the
\* field names, possibly with a name that is no field of the format, and
\* the values of the scenario.
ValueMaps(format) ==
    { [n \in present |->
          IF n = "bogus" THEN IntToFloat(1)
          ELSE SampleValue(FieldNamed(format, n), pattern)] :
      present \in SUBSET (FieldNames(format) \cup {"bogus"}),
      pattern \in ValuePatterns }
        \cup (IF format = ScenarioFormat THEN {ScenarioValues} ELSE {})

\* The number of bytes a received buffer may carry after the payload.
MaxExtra == 1

PayloadPatterns == {"zero", "ones", "ramp", "sign"}

PayloadByte(pattern, j) ==
    CASE pattern = "zero" -> 0
      [] pattern = "ones" -> 255
      [] pattern = "ramp" -> (37 * j + 11) % 256
      [] OTHER -> 128 + (j % 128)

\* The first two bytes of a received buffer: the company ID little-endian,
\* big-endian, or off by one in either byte.
IdBytes(format) ==
    LET lo == format.companyId % 256
        hi == format.companyId \div 256
    IN  {<<lo, hi>>, <<hi, lo>>, <<(lo + 1) % 256, hi>>,
         <<lo, (hi + 1) % 256>>}

\* The buffers the transport may hand to parseManufacturerData.
Buffers(format) ==
    { SubSeq(id \o [j \in 1 .. format.totalLength + MaxExtra |->
                        PayloadByte(pattern, j - 1)], 1, n) :
      id \in IdBytes(format),
      pattern \in PayloadPatterns,
      n \in 0 .. 2 + format.totalLength + MaxExtra }

\* The sensor names getSensorGroupFromName is called with: the names of the
\* examples, every keyword alone, and the names made of up to MaxParts of
\* the tokens below (keywords of every group, upper-case spellings, fillers;
\* "sensor" holds the keyword "ens").
MaxParts == 2

ExampleNames ==
    { <<"b", "m", "p", "2", "8", "0", "_", "t", "e", "m", "p">>,
      <<"M", "P", "U", "6", "0", "5", "0">>,
      <<"m", "p", "u", "6", "0", "5", "0">>,
      <<"m", "p", "u", "6", "0", "5", "0", "_", "a", "c", "c", "e", "l">>,
      <<"t", "o", "t", "a", "l", "l", "y", "_", "u", "n", "k", "n", "o", "w", "n", "_", "x", "y", "z">> }

Keywords ==
    [ ENVIRONMENTAL |-> {<<"b", "m", "p">>,
                         <<"h", "d", "c">>,
                         <<"s", "h", "t">>,
                         <<"d", "h", "t">>,
                         <<"a", "h", "t">>,
                         <<"t", "e", "m", "p", "e", "r", "a", "t", "u", "r", "e">>,
                         <<"h", "u", "m", "i", "d", "i", "t", "y">>,
                         <<"p", "r", "e", "s", "s", "u", "r", "e">>},
      AIR_QUALITY |-> {<<"e", "n", "s">>,
                         <<"s", "g", "p">>,
                         <<"c", "c", "s">>,
                         <<"a", "q", "i">>,
                         <<"c", "o", "2">>,
                         <<"t", "v", "o", "c">>},
      MOTION |-> {<<"m", "p", "u">>,
                         <<"b", "m", "i">>,
                         <<"b", "m", "m">>,
                         <<"l", "s", "m">>,
                         <<"a", "c", "c", "e", "l">>,
                         <<"g", "y", "r", "o">>,
                         <<"m", "a", "g", "n", "e", "t">>},
      AMBIENT |-> {<<"v", "e", "m", "l">>,
                         <<"t", "s", "l">>,
                         <<"b", "h", "1">>,
                         <<"l", "i", "g", "h", "t">>,
                         <<"c", "o", "l", "o", "r">>,
                         <<"b", "r", "i", "g", "h", "t", "n", "e", "s", "s">>},
      SYSTEM |-> {<<"b", "q">>,
                         <<"i", "p", "5", "3", "0", "6">>,
                         <<"b", "a", "t", "t", "e", "r", "y">>,
                         <<"p", "o", "w", "e", "r">>,
                         <<"c", "h", "a", "r", "g", "i", "n", "g">>},
      CURRENT |-> {<<"s", "c", "t">>,
                         <<"c", "u", "r", "r", "e", "n", "t">>} ]

NameTokens ==
    { <<"b", "m", "p">>,
      <<"t", "e", "m", "p", "e", "r", "a", "t", "u", "r", "e">>,
      <<"c", "o", "2">>,
      <<"s", "e", "n", "s", "o", "r">>,
      <<"m", "p", "u">>,
      <<"a", "c", "c", "e", "l">>,
      <<"l", "i", "g", "h", "t">>,
      <<"b", "q">>,
      <<"b", "a", "t", "t", "e", "r", "y">>,
      <<"s", "c", "t">>,
      <<"c", "u", "r", "r", "e", "n", "t">>,
      <<"_">>,
      <<"x">>,
      <<"M", "P", "U">>,
      <<"T", "e", "m", "p">> }

RECURSIVE NamesOf(_)
NamesOf(parts) ==
    IF parts = 0 THEN {<< >>}
    ELSE LET shorter == NamesOf(parts - 1)
         IN  shorter \cup {n \o t : n \in shorter, t \in NameTokens}

SensorNames ==
    ExampleNames
        \cup UNION {Keywords[g] : g \in SensorGroup}
        \cup NamesOf(MaxParts)

\* The sensors organizeSensorValuesByGroup is called with: at most
\* MaxSensors of the names below, each with one of the value mappings below
\* (two sensors of a group may carry the same key with different values).
MaxSensors == 3

OrganizeNames ==
    { <<"b", "m", "p", "2", "8", "0">>,
      <<"s", "h", "t", "3", "1">>,
      <<"e", "n", "s", "1", "6", "0">>,
      <<"M", "P", "U", "6", "0", "5", "0">>,
      <<"m", "p", "u", "6", "0", "5", "0">> }

SensorValueMaps ==
    { EmptyMap,
      MapPut(MapPut(EmptyMap, "temperature", Dec(215, 10)),
             "humidity", IntToFloat(40)),
      MapPut(MapPut(EmptyMap, "temperature", Dec(2345, 100)),
             "aqi", IntToFloat(50)),
      MapPut(MapPut(EmptyMap, "accel_x", Dec(1, 2)),
             "aqi", IntToFloat(75)) }

SensorDataInputs ==
    UNION { [present -> SensorValueMaps] :
            present \in {x \in SUBSET OrganizeNames :
                             Cardinality(x) <= MaxSensors} }

\* The values of a group: every field of the format its packet is packed
\* with, and a key that is no field.
GroupValues(g, pattern) ==
    LET format == parseSensorGroupProfile(g).manufacturerFormat
    IN  [n \in FieldNames(format) \cup {"bogus"} |->
            IF n = "bogus" THEN IntToFloat(1)
            ELSE SampleValue(FieldNamed(format, n), pattern)]

\* The grouped values packMultiGroupSensorData is called with: every group
\* is absent, present with an empty mapping, or present with values.
GroupedInputs ==
    { [g \in present |->
          IF g \in empty THEN EmptyMap ELSE GroupValues(g, pattern)] :
      present \in SUBSET SensorGroup,
      empty \in SUBSET SensorGroup,
      pattern \in {"typical", "beyond"} }

\* The value mappings packSensorGroupData is called with.
GroupValueMaps(g) ==
    {EmptyMap, GroupValues(g, "typical"), GroupValues(g, "high"),
     GroupValues(g, "low")}

\* The lists the lookups are called with: the list of getAllProfiles, a
\* part of it, the lists of getProfilesByGroup, and the list of
\* getAllProfiles in reverse.
ProfileLists ==
    { SubSeq(getAllProfiles, i, j) :
      i \in 1 .. Len(getAllProfiles), j \in 0 .. Len(getAllProfiles) }
        \cup {getProfilesByGroup(g) : g \in SensorGroup}
        \cup {[i \in 1 .. Len(getAllProfiles) |->
                  getAllProfiles[Len(getAllProfiles) + 1 - i]]}

ProfileNameKeys ==
    {getAllProfiles[i].profileName : i \in 1 .. Len(getAllProfiles)}
        \cup {"Unknown_Profile", ""}

ServiceUuidKeys ==
    UNION { {getAllProfiles[i].serviceUuids[j] :
                 j \in 1 .. Len(getAllProfiles[i].serviceUuids)} :
            i \in 1 .. Len(getAllProfiles) }
        \cup {"0000180F-0000-1000-8000-00805F9B34FB", ""}

\* The device names a scan observes: the names of the profiles, names that
\* hold one, and names that hold none.
DeviceNameKeys ==
    {getAllProfiles[i].deviceName : i \in 1 .. Len(getAllProfiles)}
        \cup { <<"M", "5", "S", "t", "a", "c", "k", "-", "S", "e", "n", "s", "o", "r", "-", "0", "1">>,
               <<"M", "y", "-", "E", "S", "P", "3", "2", "-", "D", "e", "v", "-", "B", "o", "a", "r", "d">>,
               <<"m", "5", "s", "t", "a", "c", "k">>,
               <<"M", "5", "S", "t", "a", "c">>,
               <<"T", "h", "e", "r", "m", "o", "m", "e", "t", "e", "r">>,
               << >> }

(***************************************************************************)
(* The state: the format, the value mapping and the buffer of the calls,   *)
(* the mapping the last parse returned, the last operation, and where the  *)
(* buffer comes from; the sensor name of a classification and the group it *)
(* returned ("none" before the call); the sensors given to                 *)
(* organizeSensorValuesByGroup, the grouped values and the packets of      *)
(* packMultiGroupSensorData; the groups a buffer is packed and parsed for; *)
(* the list of profiles, the lookup made on it ("none" before the call),   *)
(* its key and the profile found.                                           *)
(***************************************************************************)
VARIABLES fmt, values, data, results, op, origin, sensorName, group,
          sensorData, groupedData, packets, packedGroup, parsedGroup,
          profiles, lookup, key, found

codecVars == <<fmt, values, data, results, op, origin>>
groupVars == <<sensorName, group>>
utilityVars == <<sensorData, groupedData, packets, packedGroup, parsedGroup>>
registryVars == <<profiles, lookup, key, found>>
vars == <<codecVars, groupVars, utilityVars, registryVars>>

Init ==
    /\ fmt = DefaultFormat
    /\ values = EmptyMap
    /\ data = << >>
    /\ results = EmptyMap
    /\ op = "init"
    /\ origin = "none"
    /\ sensorName = << >>
    /\ group = "none"
    /\ sensorData = EmptyGroups
    /\ groupedData = EmptyGroups
    /\ packets = << >>
    /\ packedGroup = "none"
    /\ parsedGroup = "none"
    /\ profiles = << >>
    /\ lookup = "none"
    /\ key = ""
    /\ found = nullptr

\* The peripheral packs a value mapping.  (The functions keep no state from
\* one call to the next: a behaviour is one exchange, a buffer made or
\* received and then parsed.)
Pack ==
    \E f \in PackFormats :
      \E v \in ValueMaps(f) :
        \E ub \in CastOutcomes :
          /\ op = "init"
          /\ fmt' = f
          /\ values' = v
          /\ data' = packManufacturerData(v, f, ub)
          /\ results' = EmptyMap
          /\ op' = "pack"
          /\ origin' = "pack"
          /\ UNCHANGED <<groupVars, utilityVars, registryVars>>

\* The transport delivers a packed buffer without its last byte.
Truncate ==
    /\ op = "pack"
    /\ Len(data) > 0
    /\ data' = SubSeq(data, 1, Len(data) - 1)
    /\ op' = "truncate"
    /\ origin' = "truncated"
    /\ UNCHANGED <<fmt, values, results>>
    /\ UNCHANGED <<groupVars, utilityVars, registryVars>>

\* The transport delivers some other buffer.
Receive ==
    \E f \in Formats :
      \E buf \in Buffers(f) :
        /\ op = "init"
        /\ fmt' = f
        /\ values' = EmptyMap
        /\ data' = buf
        /\ results' = EmptyMap
        /\ op' = "receive"
        /\ origin' = "received"
        /\ UNCHANGED <<groupVars, utilityVars, registryVars>>

\* The central parses the buffer it has.
Parse ==
    /\ op # "parse"
    /\ results' = parseManufacturerData(data, Len(data), fmt)
    /\ op' = "parse"
    /\ UNCHANGED <<fmt, values, data, origin>>
    /\ UNCHANGED <<groupVars, utilityVars, registryVars>>

Next == Pack \/ Truncate \/ Receive \/ Parse

\* The exchanges of the codec.
Spec == Init /\ [][Next]_vars

\* A sensor name is classified.
Classify ==
    \E n \in SensorNames :
        /\ op = "init"
        /\ group = "none"
        /\ sensorName' = n
        /\ group' = getSensorGroupFromName(n)
        /\ UNCHANGED <<codecVars, utilityVars, registryVars>>

\* The values of the sensors of a device are organized by group.
Organize ==
    \E sd \in SensorDataInputs :
        /\ op = "init"
        /\ group = "none"
        /\ sensorData' = sd
        /\ groupedData' = organizeSensorValuesByGroup(sd)
        /\ op' = "organize"
        /\ UNCHANGED <<fmt, values, data, results, origin>>
        /\ UNCHANGED <<packets, packedGroup, parsedGroup>>
        /\ UNCHANGED <<groupVars, registryVars>>

\* Grouped values are packed into one packet for a group: the values just
\* organized, or values grouped by the caller.
PackMulti ==
    \E gv \in (IF op = "organize" THEN {groupedData} ELSE GroupedInputs) :
      \E ub \in CastOutcomes :
        /\ op \in {"init", "organize"}
        /\ group = "none"
        /\ groupedData' = gv
        /\ packets' = packMultiGroupSensorData(gv, ub)
        /\ op' = "packmulti"
        /\ UNCHANGED <<fmt, values, data, results, origin>>
        /\ UNCHANGED <<sensorData, packedGroup, parsedGroup>>
        /\ UNCHANGED <<groupVars, registryVars>>

\* The peripheral packs the values of one group.
PackGroup ==
    \E g \in SensorGroup :
      \E v \in GroupValueMaps(g) :
        \E ub \in CastOutcomes :
          /\ op = "init"
          /\ group = "none"
          /\ packedGroup' = g
          /\ values' = v
          /\ data' = packSensorGroupData(v, g, ub)
          /\ op' = "packgroup"
          /\ UNCHANGED <<fmt, results, origin>>
          /\ UNCHANGED <<sensorData, groupedData, packets, parsedGroup>>
          /\ UNCHANGED <<groupVars, registryVars>>

\* The central parses the buffer of a group as the data of some group; fmt
\* is the format parseSensorGroupData parses it with.
ParseGroup ==
    \E g \in SensorGroup :
        /\ op = "packgroup"
        /\ parsedGroup' = g
        /\ fmt' = parseSensorGroupProfile(g).manufacturerFormat
        /\ results' = parseSensorGroupData(data, Len(data), g)
        /\ op' = "parsegroup"
        /\ UNCHANGED <<values, data, origin>>
        /\ UNCHANGED <<sensorData, groupedData, packets, packedGroup>>
        /\ UNCHANGED <<groupVars, registryVars>>

NextGroup == Classify \/ Organize \/ PackMulti \/ PackGroup \/ ParseGroup

\* The calls of the sensor group utilities.
SpecGroup == Init /\ [][NextGroup]_vars

\* The caller obtains a list of profiles.
GetProfiles ==
    \E list \in ProfileLists :
        /\ op = "init"
        /\ profiles' = list
        /\ op' = "profiles"
        /\ UNCHANGED <<fmt, values, data, results, origin>>
        /\ UNCHANGED <<lookup, key, found>>
        /\ UNCHANGED <<groupVars, utilityVars>>

FindByName ==
    \E name \in ProfileNameKeys :
        /\ op = "profiles"
        /\ lookup' = "name"
        /\ key' = name
        /\ found' = findProfileByName(name, profiles)
        /\ op' = "find"
        /\ UNCHANGED <<fmt, values, data, results, origin>>
        /\ UNCHANGED profiles
        /\ UNCHANGED <<groupVars, utilityVars>>

FindByServiceUuid ==
    \E uuid \in ServiceUuidKeys :
        /\ op = "profiles"
        /\ lookup' = "serviceUuid"
        /\ key' = uuid
        /\ found' = findProfileByServiceUuid(uuid, profiles)
        /\ op' = "find"
        /\ UNCHANGED <<fmt, values, data, results, origin>>
        /\ UNCHANGED profiles
        /\ UNCHANGED <<groupVars, utilityVars>>

FindByDeviceName ==
    \E deviceName \in DeviceNameKeys :
        /\ op = "profiles"
        /\ lookup' = "deviceName"
        /\ key' = deviceName
        /\ found' = findProfileByDeviceName(deviceName, profiles)
        /\ op' = "find"
        /\ UNCHANGED <<fmt, values, data, results, origin>>
        /\ UNCHANGED profiles
        /\ UNCHANGED <<groupVars, utilityVars>>

NextRegistry ==
    GetProfiles \/ FindByName \/ FindByServiceUuid \/ FindByDeviceName

\* The calls of the profile registry.
SpecRegistry == Init /\ [][NextRegistry]_vars

(***************************************************************************)
(* What the properties are stated with.  The reference encoding and        *)
(* decoding below are written from the wire layout (bytes in order of      *)
(* significance), not from the code.                                        *)
(***************************************************************************)

IsSigned(dataType) == dataType \in {"INT8", "INT16_LE", "INT16_BE"}
IsFloat(dataType) == dataType \in {"FLOAT_LE", "FLOAT_BE"}
IsLittleEndian(dataType) ==
    dataType \in {"UINT16_LE", "INT16_LE", "UINT32_LE", "FLOAT_LE"}

Reverse(seq) == [i \in 1 .. Len(seq) |-> seq[Len(seq) + 1 - i]]

\* The w bytes of the two's complement integer n, most significant first.
RECURSIVE BigEndian(_, _)
BigEndian(n, w) ==
    IF w = 0 THEN << >> ELSE BigEndian(n \div 256, w - 1) \o <<n % 256>>

\* The unsigned number of bytes given most significant first.
RECURSIVE Unsigned(_)
Unsigned(bytes) ==
    IF bytes = << >> THEN 0
    ELSE Unsigned(SubSeq(bytes, 1, Len(bytes) - 1)) * 256 + bytes[Len(bytes)]

\* The two's complement number of bytes given most significant first.
TwosComplement(bytes) ==
    Unsigned(<<0>> \o Tail(bytes))
        + (IF bytes[1] >= 128 THEN bytes[1] - 256 ELSE bytes[1])
              * 256^(Len(bytes) - 1)

\* The range of the integers a wire type holds (the upper end of the 32-bit
\* types is cut to 2^31 - 1).
TypeMin(dataType) ==
    CASE dataType = "INT8" -> 0 - 128
      [] dataType \in {"INT16_LE", "INT16_BE"} -> 0 - 32768
      [] OTHER -> 0
TypeMax(dataType) ==
    CASE dataType = "UINT8" -> 255
      [] dataType = "INT8" -> 127
      [] dataType \in {"UINT16_LE", "UINT16_BE"} -> 65535
      [] dataType \in {"INT16_LE", "INT16_BE"} -> 32767
      [] OTHER -> 2147483647

\* The raw value value / scale truncates to an integer of the type's range.
RawInRange(value, field) ==
    LET t == FloatToInt(FDiv(value, field.scale))
    IN  t.ok /\ TypeMin(field.dataType) <= t.v /\ t.v <= TypeMax(field.dataType)

\* The raw value value / scale is an integer of the type's range.
RawIntegral(value, field) ==
    /\ RawInRange(value, field)
    /\ IntToFloat(FloatToInt(FDiv(value, field.scale)).v)
           = FDiv(value, field.scale)

\* The bytes the wire layout asks for: the raw value value / scale in the
\* width, signedness and byte order of the type.
WireBytes(value, field) ==
    LET raw == FDiv(value, field.scale)
        msf == IF IsFloat(field.dataType) THEN Reverse(BytesOfFloat(raw))
               ELSE BigEndian(FloatToInt(raw).v, Width(field.dataType))
    IN  IF IsLittleEndian(field.dataType) THEN Reverse(msf) ELSE msf

\* The bytes of a field in a packed or received buffer.
FieldBytes(buffer, field) ==
    SubSeq(buffer, 3 + field.offset,
           2 + field.offset + Width(field.dataType))

\* The value the bytes of a field decode to.  signed32 says how the four
\* bytes of a UINT32 field are read: as the unsigned number they are, or as
\* an int of 32 bits.
WireValue(buffer, field, signed32) ==
    LET wire == FieldBytes(buffer, field)
        msf == IF IsLittleEndian(field.dataType) THEN Reverse(wire) ELSE wire
        raw == IF IsFloat(field.dataType)
               THEN FloatOfBytes(msf[4], msf[3], msf[2], msf[1])
               ELSE IF IsSigned(field.dataType)
                       \/ (signed32 /\ Width(field.dataType) = 4)
               THEN IntToFloat(TwosComplement(msf))
               ELSE IntToFloat(Unsigned(msf))
    IN  FMul(raw, field.scale)

IdMatches(buffer, format) ==
    /\ Len(buffer) >= 2
    /\ buffer[1] + 256 * buffer[2] = format.companyId

\* A decode that fails: a buffer without a company ID, with another
\* company ID, or shorter than 2 + totalLength.
DecodeFails(buffer, format) ==
    \/ ~IdMatches(buffer, format)
    \/ Len(buffer) < 2 + format.totalLength

\* The field lies within the payload of the buffer.
InPayload(buffer, field) ==
    field.offset + Width(field.dataType) <= Len(buffer) - 2

(***************************************************************************)
(* The properties                                                           *)
(***************************************************************************)

\* The value mapping covers every field and every raw value is exactly
\* representable: any float for a float field, an integer of the type's
\* range for an integer field.
ExactlyEncodable(vals, format) ==
    /\ FieldNames(format) \subseteq DOMAIN vals
    /\ \A fd \in FieldsOf(format) :
          \/ IsFloat(fd.dataType) /\ vals[fd.sensorName].k = "num"
          \/ ~IsFloat(fd.dataType) /\ RawIntegral(vals[fd.sensorName], fd)

\* C1: round trip.  For every predefined format and every value mapping
\* that covers all its fields with exactly representable raw values,
\* parsing the packed buffer gives back the value of every field.
C1_RoundTrip ==
    (/\ op = "parse"
     /\ origin = "pack"
     /\ fmt \in PredefinedFormats
     /\ ExactlyEncodable(values, fmt))
        => \A fd \in FieldsOf(fmt) :
              /\ fd.sensorName \in DOMAIN results
              /\ FEq(results[fd.sensorName], values[fd.sensorName])

\* C2: a buffer of at least two bytes whose first two bytes, little-endian,
\* differ from format.companyId parses to no field at all, whatever its
\* length and its payload.
C2_IdMismatchFails ==
    (op = "parse" /\ Len(data) >= 2 /\ ~IdMatches(data, fmt))
        => DOMAIN results = {}

\* C2's case: the company ID differs while the buffer is long enough and
\* the payload is not zero, so that only the ID keeps fields from decoding.
C2_Witness ==
    /\ op = "parse"
    /\ ~IdMatches(data, fmt)
    /\ fmt.dataFields # << >>
    /\ Len(data) >= 2 + fmt.totalLength
    /\ At(data, 2) # 0
    /\ DOMAIN results = {}

\* C3: a buffer shorter than 2 + format.totalLength, the lengths 0 and 1
\* included, parses to no field at all.
C3_TooShortFails ==
    (op = "parse" /\ Len(data) < 2 + fmt.totalLength)
        => DOMAIN results = {}

\* C3's case: the company ID matches and the bytes that are present hold a
\* whole field, yet nothing is decoded.
C3_Witness ==
    /\ op = "parse"
    /\ IdMatches(data, fmt)
    /\ Len(data) < 2 + fmt.totalLength
    /\ \E fd \in FieldsOf(fmt) : InPayload(data, fd) /\ At(data, 2) # 0
    /\ DOMAIN results = {}

\* What parseManufacturerData returns for a format when the decode fails:
\* for the empty buffer and for a buffer with another company ID.
FailureOutcomes(format) ==
    { parseManufacturerData(<< >>, 0, format),
      parseManufacturerData(
          << (format.companyId + 1) % 256, format.companyId \div 256 >>
              \o [i \in 1 .. format.totalLength |-> 0],
          2 + format.totalLength, format) }

\* C4: the outcome of a failed decode differs from the outcome of every
\* successful decode, one that yields zero fields included.
C4_FailureDistinguishable ==
    (op = "parse" /\ ~DecodeFails(data, fmt))
        => results \notin FailureOutcomes(fmt)

\* C5 as stated: when the company ID matches, a field that does not lie
\* within the payload is left out of the mapping and every other field is
\* decoded; a packed buffer truncated by one byte loses only its last field.
C5_PartialTolerance ==
    (op = "parse" /\ IdMatches(data, fmt))
        => \A fd \in FieldsOf(fmt) :
              IF InPayload(data, fd)
              THEN /\ fd.sensorName \in DOMAIN results
                   /\ results[fd.sensorName] = WireValue(data, fd, TRUE)
              ELSE fd.sensorName \notin DOMAIN results

\* C5 amended: a decode either fails as a whole, which it does for every
\* buffer shorter than 2 + totalLength (a packed buffer truncated by one
\* byte included), or yields every field of the format: a field that lies
\* within the payload with the value of its bytes (the four bytes of a
\* UINT32 read as an int), a field that does not with the value 0.
C5_NoFieldOmitted ==
    op = "parse"
        => IF DecodeFails(data, fmt)
           THEN DOMAIN results = {}
           ELSE /\ DOMAIN results = FieldNames(fmt)
                /\ \A fd \in FieldsOf(fmt) :
                      results[fd.sensorName] =
                          IF InPayload(data, fd)
                          THEN WireValue(data, fd, TRUE)
                          ELSE FZero(0)

\* C5's case: the decode succeeds on a payload that holds the first byte of
\* the two-byte field "second", which is decoded as 0 next to "first".
C5_Witness ==
    /\ op = "parse"
    /\ fmt = ShortLengthFormat
    /\ ~DecodeFails(data, fmt)
    /\ ~InPayload(data, FieldNamed(fmt, "second"))
    /\ At(data, 2) # 0 /\ At(data, 3) # 0
    /\ results["second"] = FZero(0)
    /\ results["first"] = IntToFloat(At(data, 2))

\* C6: the packed buffer has exactly 2 + format.totalLength bytes, for
\* every format and every value mapping.
C6_ExactLength ==
    op = "pack" => Len(data) = 2 + fmt.totalLength

\* C6's case: a mapping with a name that is no field, some fields present
\* and some absent.
C6_Witness ==
    /\ op = "pack"
    /\ "bogus" \in DOMAIN values
    /\ \E n \in FieldNames(fmt) : n \in DOMAIN values
    /\ \E n \in FieldNames(fmt) : n \notin DOMAIN values
    /\ fmt.totalLength = 12
    /\ Len(data) = 14

\* C7: for every field whose name is a key of the values, whatever its wire
\* type, the bytes of the field in the packed buffer are the raw value in
\* the width, signedness and byte order of the type (for the raw values the
\* type can hold, whose conversion is defined).
C7_WritesEveryType ==
    op = "pack"
        => \A fd \in FieldsOf(fmt) :
              (/\ fd.sensorName \in DOMAIN values
               /\ IsFloat(fd.dataType) \/ RawInRange(values[fd.sensorName], fd))
                  => FieldBytes(data, fd) = WireBytes(values[fd.sensorName], fd)

\* A payload byte index j lies in the range of a field whose name is a key
\* of the values.
Written(j, vals, format) ==
    \E fd \in FieldsOf(format) :
        /\ fd.sensorName \in DOMAIN vals
        /\ fd.offset <= j
        /\ j < fd.offset + Width(fd.dataType)

\* C8: every payload byte of the packed buffer outside the ranges of the
\* fields whose names are keys of the values is zero.
C8_UnwrittenBytesZero ==
    op = "pack"
        => \A j \in 0 .. fmt.totalLength - 1 :
              ~Written(j, values, fmt) => At(data, 2 + j) = 0

\* C8's case: two fields written with bytes other than zero around an
\* absent field, an unused byte and another absent field.
C8_Witness ==
    /\ op = "pack"
    /\ fmt = LittleEndianFormat
    /\ DOMAIN values = {"trim", "tilt"}
    /\ At(data, 2) # 0
    /\ At(data, 5) # 0 /\ At(data, 6) # 0
    /\ \A j \in {1, 2, 5, 6, 7, 8, 9} : At(data, 2 + j) = 0

\* C9 as stated: packing battery 87 and temperature 23.45 with the format
\* of the scenario yields the bytes 01 10 57 09 2D.
C9_ScenarioBytes ==
    (op = "pack" /\ fmt = ScenarioFormat /\ values = ScenarioValues)
        => data = <<1, 16, 87, 9, 45>>

\* C9 amended: the packed bytes are 01 10 57 09 29 (the raw temperature
\* 2345 is 0x0929), and parsing them yields battery 87 and temperature
\* 2345 * 0.01f, the float 0x41BB9999 next below 23.45f.
C9_Scenario ==
    (origin = "pack" /\ fmt = ScenarioFormat /\ values = ScenarioValues)
        => /\ data = <<1, 16, 87, 9, 41>>
           /\ op = "parse"
                 => /\ DOMAIN results = {"battery", "temperature"}
                    /\ results["battery"] = IntToFloat(87)
                    /\ results["temperature"]
                           = FMul(IntToFloat(2345), Dec(1, 100))
                    /\ BytesOfFloat(results["temperature"])
                           = <<153, 153, 187, 65>>
                    /\ BytesOfFloat(Dec(2345, 100)) = <<154, 153, 187, 65>>

\* C9's case: the scenario packed and parsed.
C9_Witness ==
    /\ op = "parse"
    /\ origin = "pack"
    /\ fmt = ScenarioFormat
    /\ values = ScenarioValues
    /\ DOMAIN results = {"battery", "temperature"}

\* sub occurs in str.
IsSubstring(sub, str) ==
    \E i \in 1 .. Len(str) - Len(sub) + 1 :
        \A k \in 1 .. Len(sub) : str[i + k - 1] = sub[k]

\* The groups in the order of priority.
PriorityOrder ==
    <<"ENVIRONMENTAL", "AIR_QUALITY", "MOTION", "AMBIENT", "SYSTEM", "CURRENT">>

\* The group has a keyword that occurs in the name.
Matches(g, name) == \E kw \in Keywords[g] : IsSubstring(kw, name)

\* C10: the group returned is the first group, in the order of priority,
\* one of whose keywords occurs in the name, and ENVIRONMENTAL when no
\* keyword occurs; "bmp280_temp" is ENVIRONMENTAL, "mpu6050_accel" MOTION,
\* "totally_unknown_xyz" ENVIRONMENTAL.
C10_FirstMatchingGroup ==
    group # "none"
        => /\ \/ \E i \in 1 .. Len(PriorityOrder) :
                    /\ group = PriorityOrder[i]
                    /\ Matches(PriorityOrder[i], sensorName)
                    /\ \A j \in 1 .. i - 1 :
                          ~Matches(PriorityOrder[j], sensorName)
              \/ /\ group = "ENVIRONMENTAL"
                 /\ \A g \in SensorGroup : ~Matches(g, sensorName)
           /\ sensorName = <<"b", "m", "p", "2", "8", "0", "_", "t", "e", "m", "p">>
                 => group = "ENVIRONMENTAL"
           /\ sensorName = <<"m", "p", "u", "6", "0", "5", "0", "_", "a", "c", "c", "e", "l">>
                 => group = "MOTION"
           /\ sensorName = <<"t", "o", "t", "a", "l", "l", "y", "_", "u", "n", "k", "n", "o", "w", "n", "_", "x", "y", "z">>
                 => group = "ENVIRONMENTAL"

\* C10's case: a name with keywords of two groups, classified to the one
\* that comes first.
C10_Witness ==
    /\ sensorName = <<"a", "c", "c", "e", "l", "c", "o", "2">>
    /\ group = "AIR_QUALITY"


\* The name with every upper-case letter replaced by its lower-case letter.
ToLower(name) ==
    [i \in 1 .. Len(name) |->
        LET c == CharOrder(name[i])
        IN  IF c >= CharOrder("A") /\ c <= CharOrder("Z")
            THEN Chars[c + (CharOrder("a") - CharOrder("A"))]
            ELSE name[i]]

\* C11: classification is case-insensitive: the group of a name is the
\* group of the name in lower case, and "MPU6050" is MOTION like "mpu6050".
C11_CaseInsensitive ==
    group # "none"
        => /\ group = getSensorGroupFromName(ToLower(sensorName))
           /\ sensorName = <<"M", "P", "U", "6", "0", "5", "0">> => group = "MOTION"

\* The sensors given to organizeSensorValuesByGroup that are classified to
\* the group, and the keys of their values.
SensorsOf(g) ==
    {n \in DOMAIN sensorData : getSensorGroupFromName(n) = g}
KeysOf(g) == UNION {DOMAIN sensorData[n] : n \in SensorsOf(g)}

\* The last sensor of the group, in ascending order of the names, that
\* carries the key.
LastCarrier(g, k) ==
    LET carriers == {n \in SensorsOf(g) : k \in DOMAIN sensorData[n]}
    IN  CHOOSE n \in carriers :
            \A o \in carriers : o = n \/ StringLess(o, n)

\* C12: the entry of a group has as keys the union of the keys of the
\* sensors classified to the group, each with the value of the last sensor,
\* in ascending order of the sensor names, that is classified to the group
\* and carries the key; a group no value is merged into has no entry.
C12_OrganizedByGroup ==
    op = "organize"
        => /\ DOMAIN groupedData = {g \in SensorGroup : KeysOf(g) # {}}
           /\ \A g \in DOMAIN groupedData :
                 /\ DOMAIN groupedData[g] = KeysOf(g)
                 /\ \A k \in KeysOf(g) :
                       groupedData[g][k] = sensorData[LastCarrier(g, k)][k]

\* C12's case: two sensors of a group carry "temperature" with different
\* values and the later one wins; a sensor of another group has no value and
\* its group no entry.
C12_Witness ==
    /\ op = "organize"
    /\ DOMAIN sensorData = {<<"b", "m", "p", "2", "8", "0">>, <<"s", "h", "t", "3", "1">>, <<"e", "n", "s", "1", "6", "0">>}
    /\ DOMAIN sensorData[<<"e", "n", "s", "1", "6", "0">>] = {}
    /\ "temperature" \in DOMAIN sensorData[<<"b", "m", "p", "2", "8", "0">>]
    /\ "temperature" \in DOMAIN sensorData[<<"s", "h", "t", "3", "1">>]
    /\ sensorData[<<"b", "m", "p", "2", "8", "0">>]["temperature"] = Dec(2345, 100)
    /\ sensorData[<<"s", "h", "t", "3", "1">>]["temperature"] = Dec(215, 10)
    /\ DOMAIN groupedData = {"ENVIRONMENTAL"}
    /\ groupedData["ENVIRONMENTAL"]["temperature"] = Dec(215, 10)
    /\ DOMAIN groupedData["ENVIRONMENTAL"] = {"temperature", "humidity", "aqi"}

\* The groups of the grouped values whose value mapping is not empty.
NonEmptyGroups ==
    {g \in DOMAIN groupedData : DOMAIN groupedData[g] # {}}

\* The canonical profile of a group: the first profile getProfilesByGroup
\* lists for it.
CanonicalProfile(g) == getProfilesByGroup(g)[1]

\* C13: there is exactly one packet for each group whose value mapping is
\* not empty and none for any other group; the packets are in ascending
\* order of the group; a packet carries the service UUID of its group and
\* the buffer packManufacturerData makes of the values of the group with
\* the format of the canonical profile of the group.
C13_OnePacketPerGroup ==
    op = "packmulti"
        => /\ Len(packets) = Cardinality(NonEmptyGroups)
           /\ {packets[i].group : i \in 1 .. Len(packets)} = NonEmptyGroups
           /\ \A i, j \in 1 .. Len(packets) :
                 i < j => SensorGroupValue[packets[i].group]
                              < SensorGroupValue[packets[j].group]
           /\ \A i \in 1 .. Len(packets) :
                 LET g == packets[i].group
                 IN  /\ packets[i].serviceUuid = getServiceUUIDForGroup(g)
                     /\ packets[i].serviceUuid
                            = CanonicalProfile(g).serviceUuids[1]
                     /\ \E ub \in CastOutcomes :
                           packets[i].data =
                               packManufacturerData(groupedData[g],
                                   CanonicalProfile(g).manufacturerFormat, ub)

\* C13's case: one group with an empty mapping between two groups with
\* values, the other groups absent: two packets.
C13_Witness ==
    /\ op = "packmulti"
    /\ DOMAIN groupedData = {"ENVIRONMENTAL", "MOTION", "CURRENT"}
    /\ DOMAIN groupedData["MOTION"] = {}
    /\ Len(packets) = 2
    /\ packets[1].group = "ENVIRONMENTAL"
    /\ packets[2].group = "CURRENT"
    /\ packets[2].serviceUuid = ServiceUUIDs_CURRENT
    /\ Len(packets[2].data) = 14

\* The profile matches the key of the lookup.
MatchesLookup(profile, kind, k) ==
    CASE kind = "name" -> profile.profileName = k
      [] kind = "serviceUuid" ->
           \E j \in 1 .. Len(profile.serviceUuids) :
               profile.serviceUuids[j] = k
      [] kind = "deviceName" -> IsSubstring(profile.deviceName, k)

\* The result of the lookup: the first profile of the list that matches, and
\* nullptr when none matches.
FirstMatchFound ==
    op = "find"
        => LET hits == {i \in 1 .. Len(profiles) :
                            MatchesLookup(profiles[i], lookup, key)}
           IN  IF hits = {} THEN found = nullptr
               ELSE found \in hits /\ \A i \in hits : found <= i

\* C14: each of the three lookups returns the first profile, in the order
\* of the list, that matches the key, and nullptr when no profile matches;
\* a lookup leaves the list as it is.
C14_FirstMatch ==
    /\ []FirstMatchFound
    /\ [][op' = "find" => profiles' = profiles]_vars

\* C14's case: a service UUID that four profiles of the list carry; the
\* lookup returns the third profile of the list, the first of the four.
C14_Witness ==
    /\ op = "find"
    /\ lookup = "serviceUuid"
    /\ key = ServiceUUIDs_ENVIRONMENTAL
    /\ profiles = getAllProfiles
    /\ found = 3
    /\ Cardinality({i \in 1 .. Len(profiles) :
                        MatchesLookup(profiles[i], lookup, key)}) = 4

\* C15: two different groups have different company IDs, so that a buffer
\* packed for one group is parsed to no field at all as the data of any
\* other group.
C15_CrossGroupRejected ==
    (op = "parsegroup" /\ packedGroup # parsedGroup)
        => /\ ReceivedCompanyId(data) # fmt.companyId
           /\ DOMAIN results = {}

\* The fields of the format lie within totalLength, have different names
\* and do not overlap.
WellFormed(format) ==
    LET n == Len(format.dataFields)
        end(a) == format.dataFields[a].offset
                      + Width(format.dataFields[a].dataType)
    IN  /\ \A a \in 1 .. n : end(a) <= format.totalLength
        /\ \A a, b \in 1 .. n :
              a < b =>
                /\ format.dataFields[a].sensorName
                       # format.dataFields[b].sensorName
                /\ \/ end(a) <= format.dataFields[b].offset
                   \/ end(b) <= format.dataFields[a].offset

\* C16: in the format of every profile of getAllProfiles, every field lies
\* within totalLength, the names of the fields are pairwise different and
\* the byte ranges of two fields do not overlap.
C16_WellFormedFormats ==
    op \in {"profiles", "find"}
        => \A i \in 1 .. Len(profiles) :
              WellFormed(profiles[i].manufacturerFormat)

\* C16's case: the list of getAllProfiles, whose ninth profile has seven
\* fields that fill its twelve bytes.
C16_Witness ==
    /\ op = "profiles"
    /\ profiles = getAllProfiles
    /\ Len(profiles[9].manufacturerFormat.dataFields) = 7
    /\ profiles[9].manufacturerFormat.totalLength = 12

IsUnsignedInt(dataType) ==
    dataType \in {"UINT8", "UINT16_LE", "UINT16_BE", "UINT32_LE", "UINT32_BE"}

\* The float nearest to the unsigned number of bytes given most significant
\* first (a number of 2^31 or more is rounded from its half and its last
\* bit).
UnsignedRaw(bytes) ==
    IF Len(bytes) < 4 \/ bytes[1] < 128 THEN IntToFloat(Unsigned(bytes))
    ELSE RoundPack(0, Unsigned(SubSeq(bytes, 1, 3)) * 128 + bytes[4] \div 2,
                   1, bytes[4] % 2 = 1)

\* C17: a field of an unsigned wire type decodes to the unsigned number its
\* bytes form in the order of the type, times the scale, which is never
\* negative, whatever the bytes.
C17_UnsignedReads ==
    (op = "parse" /\ ~DecodeFails(data, fmt))
        => \A fd \in FieldsOf(fmt) :
              (IsUnsignedInt(fd.dataType) /\ InPayload(data, fd))
                  => LET wire == FieldBytes(data, fd)
                         msf == IF IsLittleEndian(fd.dataType)
                                THEN Reverse(wire) ELSE wire
                     IN  /\ results[fd.sensorName].s = 0
                         /\ results[fd.sensorName]
                                = FMul(UnsignedRaw(msf), fd.scale)

\* C18: looked up in the list of getAllProfiles, the device name of every
\* profile of the list finds that profile ("M5Stack-Full" the profile
\* M5Stack_Comprehensive).
C18_NoShadowing ==
    (op = "find" /\ lookup = "deviceName" /\ profiles = getAllProfiles)
        => \A i \in 1 .. Len(profiles) :
              key = profiles[i].deviceName => found = i

===========================================================================
